---- MODULE Spec2Model ----
(***************************************************************************)
(* Conversation controller of the chat widgets (ChatApp and                *)
(* SupportChatWidget): message history, busy flag, outbound request,       *)
(* persistence in localStorage.                                            *)
(*                                                                         *)
(* React state is modelled as the committed value of each useState cell    *)
(* plus the queue of state updates that have been requested and not yet    *)
(* rendered.  Updates requested inside a user event handler (click, key,   *)
(* change) are rendered before the handler's event ends, so those actions  *)
(* include the commit; updates requested from an effect or from the        *)
(* continuation of an awaited promise wait in the queue for Render.        *)
(* Every commit that changes `messages` runs the save effect.              *)
(* localStorage.setItem is taken to succeed.                               *)
(*                                                                         *)
(* A text is a sequence of one-character strings.                          *)
(* `nSends`, `ignoredCall`, `lastOutcome` and `rejected` are history       *)
(* variables: the number of calls of sendMessage that passed its guard,    *)
(* whether a call has returned at the guard since the last render, how the *)
(* request settled whose updates are waiting to be rendered, and whether a *)
(* sendMessage promise has rejected.                                       *)
(* Removing the component ends its requests: their continuations would     *)
(* only update the state of a component that is gone.                      *)
(* Each request keeps, in `storedAtFetch`, what the store held when fetch  *)
(* was called.                                                             *)
(* `peer` is a second instance of the component over the same store        *)
(* (SpecTabs); `rawText` and `blocks` are the argument and the result of   *)
(* formatMessage (SpecFormat); `formattedText` is what the image pre-pass  *)
(* makes of `rawText` (SpecImages).                                        *)
(***************************************************************************)
EXTENDS Integers, Sequences, FiniteSets, TLC

VARIABLES variant, clock, mounted, instance, userSessionId,
          messages, isLoading, inputMessage, queue,
          store, requests, nSends, ignoredCall, lastOutcome, rejected,
          peer, rawText, blocks, formattedText

vars == << variant, clock, mounted, instance, userSessionId,
           messages, isLoading, inputMessage, queue,
           store, requests, nSends, ignoredCall, lastOutcome, rejected,
           peer, rawText, blocks, formattedText >>

\* what formatMessage is given and what it returns
formatterVars == << rawText, blocks, formattedText >>

(* ------------------------------ bounds --------------------------------- *)
MaxSends == 2
MaxTicks == 1
MaxMounts == 2
PrefillLen == 98
MaxPeerSends == 1
MaxTextLen == 5

(* --------------------------- program constants ------------------------- *)
RETENTION == 100

FALLBACK_TEXT == <<
    "S", "o", "r", "r", "y", ",", " ", "I", " ", "c", "o", "u",
    "l", "d", " ", "n", "o", "t", " ", "p", "r", "o", "c", "e",
    "s", "s", " ", "y", "o", "u", "r", " ", "r", "e", "q", "u",
    "e", "s", "t", "." >>

ERROR_TEXT == <<
    "S", "o", "r", "r", "y", ",", " ", "I", " ", "e", "n", "c",
    "o", "u", "n", "t", "e", "r", "e", "d", " ", "a", "n", " ",
    "e", "r", "r", "o", "r", " ", "w", "h", "i", "l", "e", " ",
    "p", "r", "o", "c", "e", "s", "s", "i", "n", "g", " ", "y",
    "o", "u", "r", " ", "r", "e", "q", "u", "e", "s", "t", ".",
    " ", "P", "l", "e", "a", "s", "e", " ", "t", "r", "y", " ",
    "a", "g", "a", "i", "n", "." >>

WELCOME_TEXT == <<
    "H", "e", "l", "l", "o", "!", " ", "I", "'", "m", " ", "y",
    "o", "u", "r", " ", "T", "r", "a", "v", "e", "l", "a", " ",
    "s", "u", "p", "p", "o", "r", "t", " ", "a", "s", "s", "i",
    "s", "t", "a", "n", "t", ".", " ", "H", "o", "w", " ", "c",
    "a", "n", " ", "I", " ", "h", "e", "l", "p", " ", "y", "o",
    "u", " ", "t", "o", "d", "a", "y", "?" >>


(* ------------------------------ inputs --------------------------------- *)
RandomValues == { 0 }
PeerRandomValues == { 1 }
PeerTexts == { << "y", "o" >> }
Alphabet == { "a", " ", "*", "|", "-", "\n" }
UrlLeads == { << >>, << "s", "e", "e", " " >>, << "!", "[", "]", "(" >> }
UrlSchemes == { << "h", "t", "t", "p", ":", "/", "/" >>, << "h", "t", "t", "p", "s", ":", "/", "/" >>, << "H", "T", "T", "P", "S", ":", "/", "/" >>, << "f", "t", "p", ":", "/", "/" >> }
UrlHosts == { << "x" >>, << >> }
UrlExtensions == { << ".", "p", "n", "g" >>, << ".", "J", "P", "G" >>, << ".", "j", "p", "e", "g" >>, << ".", "g", "i", "f" >>, << ".", "t", "x", "t" >>, << ".", "p", "n" >> }
UrlTails == { << >>, << "?", "w" >>, << ")" >>, << " ", "o", "k" >>, << ".", "p", "n", "g" >> }
SampleTexts == {
    << "H", "e", "l", "l", "o", " ", "*", "*", "w", "o", "r", "l", "d", "*", "*", "!" >>,
    << "N", "a", "m", "e", " ", "|", " ", "A", "l", "i", "c", "e", " ", "|", " ", "3", "0" >>,
    << "-", "-", "-", "|", "-", "-", "-", "|", "-", "-", "-" >>,
    << "|", " ", "*", "*", "K", "e", "y", "*", "*", " ", "|", " ", "a", "*", "*", "b", "*", "*", " ", "|" >>,
    << "a", "*", "*", "b", "*", "*", "c", "*", "*", "d" >>,
    << "*", "n", "o", "t", "e", "*", "\n", "\n", "x", " ", "|", " ", "-", "-", "-", "-" >> }
TypeTexts == { << " " >>, << " ", "h", "i" >> }
OutputTexts == { << "o", "k" >> }
ClockStart == PrefillLen + 1

(* ------------------------------ helpers -------------------------------- *)
Whitespace == { " ", "\t", "\n" }

SetMin(S) == CHOOSE x \in S : \A y \in S : x <= y
SetMax(S) == CHOOSE x \in S : \A y \in S : x >= y

\* String.prototype.trim
trim(s) ==
    LET keep == { i \in 1..Len(s) : s[i] \notin Whitespace }
    IN  IF keep = {} THEN << >> ELSE SubSeq(s, SetMin(keep), SetMax(keep))

\* new Date(), Date.prototype.toISOString (inside JSON.stringify), new Date(string)
Date(ms) == [kind |-> "Date", ms |-> ms]
toISOString(d) == [kind |-> "iso", ms |-> d.ms]
parseDate(str) == [kind |-> "Date", ms |-> str.ms]

\* requestId?: string   (undefined is the empty tuple)
NoRequestId == << >>

\* `chat_${Date.now()}_${Math.random()...}`
generateUniqueId(now, rnd) == << now, rnd >>

Message(id, text, sender, now, requestId) ==
    [id |-> id, text |-> text, sender |-> sender,
     timestamp |-> Date(now), requestId |-> requestId]

\* JSON.stringify(messages) / JSON.parse(...).map(msg => ({...msg, timestamp: new Date(msg.timestamp)}))
stringifyMessages(msgs) ==
    [i \in 1..Len(msgs) |-> [msgs[i] EXCEPT !.timestamp = toISOString(@)]]
\* mutant: JSON.parse alone, the timestamps stay strings
reviveMessages_keepsStrings(saved) ==
    [i \in 1..Len(saved) |-> saved[i]]
reviveMessages(saved) ==
    [i \in 1..Len(saved) |-> [saved[i] EXCEPT !.timestamp = parseDate(@)]]

\* localStorage items
Absent == [state |-> "absent", value |-> << >>]
Corrupt == [state |-> "corrupt", value |-> << >>]
Json(v) == [state |-> "json", value |-> v]

Null == [isNull |-> TRUE, value |-> << >>]
getFromLocalStorage(item) ==
    IF item.state = "json" THEN [isNull |-> FALSE, value |-> item.value] ELSE Null

\* messages.slice(Math.max(messages.length - 100, 0))
messagesToSave(msgs) ==
    LET from == IF Len(msgs) - RETENTION > 0 THEN Len(msgs) - RETENTION ELSE 0
    IN  SubSeq(msgs, from + 1, Len(msgs))

\* mutant: no test of messages.length
saveEffect_noGuard(v, msgs, st) ==
    [st EXCEPT !.history =
        Json(stringifyMessages(IF v = "ChatApp" THEN messagesToSave(msgs) ELSE msgs))]

\* mutant: stored messages the writer does not have are kept in front
saveEffect_merges(v, msgs, st) ==
    IF Len(msgs) > 0
    THEN LET mine == stringifyMessages(IF v = "ChatApp" THEN messagesToSave(msgs) ELSE msgs)
             stored == IF st.history.state = "json" THEN st.history.value ELSE << >>
             notMine(m) == \A i \in 1..Len(mine) : mine[i] # m
         IN  [st EXCEPT !.history = Json(SelectSeq(stored, notMine) \o mine)]
    ELSE st

\* the effect with dependency [messages]
saveEffect(v, msgs, st) ==
    IF Len(msgs) > 0
    THEN [st EXCEPT !.history =
            Json(stringifyMessages(IF v = "ChatApp" THEN messagesToSave(msgs) ELSE msgs))]
    ELSE st

(* ------------------------- remote endpoint ----------------------------- *)
\* what one fetch can come to: rejection, a non-2xx status, a body that
\* response.json() rejects, the JSON value null, or a JSON object with or
\* without an output field
Outcome(kind, hasOutput, output) == [kind |-> kind, hasOutput |-> hasOutput, output |-> output]
Outcomes ==
    { Outcome(k, FALSE, << >>) : k \in { "network", "status", "unparseable", "null", "object" } }
    \cup { Outcome("object", TRUE, o) : o \in OutputTexts \cup { << >> } }
NoOutcome == Outcome("none", FALSE, << >>)

(* --------------------------- state updates ----------------------------- *)
Update(op, msgs, flag, text) == [op |-> op, msgs |-> msgs, flag |-> flag, text |-> text]
setMessages(msgs) == Update("setMessages", msgs, FALSE, << >>)
appendMessage(m) == Update("appendMessage", << m >>, FALSE, << >>)
setIsLoading(b) == Update("setIsLoading", << >>, b, << >>)
setInputMessage(t) == Update("setInputMessage", << >>, FALSE, t)

\* mutant: the retention window applied to the live history as well
applyUpdate_truncates(st, u) ==
    CASE u.op = "setMessages" -> [st EXCEPT !.messages = u.msgs]
      [] u.op = "appendMessage" -> [st EXCEPT !.messages = messagesToSave(@ \o u.msgs)]
      [] u.op = "setIsLoading" -> [st EXCEPT !.isLoading = u.flag]
      [] u.op = "setInputMessage" -> [st EXCEPT !.inputMessage = u.text]

applyUpdate(st, u) ==
    CASE u.op = "setMessages" -> [st EXCEPT !.messages = u.msgs]
      [] u.op = "appendMessage" -> [st EXCEPT !.messages = @ \o u.msgs]
      [] u.op = "setIsLoading" -> [st EXCEPT !.isLoading = u.flag]
      [] u.op = "setInputMessage" -> [st EXCEPT !.inputMessage = u.text]

RECURSIVE applyUpdates(_, _)
applyUpdates(st, q) ==
    IF q = << >> THEN st ELSE applyUpdates(applyUpdate(st, Head(q)), Tail(q))

touchesMessages(q) ==
    \E i \in 1..Len(q) : q[i].op \in { "setMessages", "appendMessage" }

Committed == [messages |-> messages, isLoading |-> isLoading, inputMessage |-> inputMessage]

\* render with every queued update applied, then the effects of that render
Commit(q) ==
    LET st == applyUpdates(Committed, q)
    IN  /\ messages' = st.messages
        /\ isLoading' = st.isLoading
        /\ inputMessage' = st.inputMessage
        /\ queue' = << >>
        /\ ignoredCall' = FALSE
        /\ lastOutcome' = NoOutcome
        /\ store' = IF touchesMessages(q) THEN saveEffect(variant, st.messages, store) ELSE store

(* ---------------------------- sendMessage ------------------------------ *)
\* mutant: ?? in place of ||, so an empty output is kept
outputOrFallback_nullish(o) ==
    IF o.hasOutput THEN o.output ELSE FALLBACK_TEXT

\* data.output || 'Sorry, I could not process your request.'
outputOrFallback(o) ==
    IF o.hasOutput /\ o.output # << >> THEN o.output ELSE FALLBACK_TEXT

\* mutant: no message when the response has no usable output
settle_skipsEmptyReply(o, now, requestId) ==
    IF o.kind = "object" /\ o.hasOutput /\ o.output # << >>
    THEN [updates |-> << appendMessage(Message(now + 1, o.output, "bot", now, requestId)),
                         setIsLoading(FALSE) >>,
          rejects |-> FALSE]
    ELSE IF o.kind = "object"
    THEN [updates |-> << setIsLoading(FALSE) >>, rejects |-> FALSE]
    ELSE [updates |-> << appendMessage(Message(now + 1, ERROR_TEXT, "bot", now, requestId)),
                         setIsLoading(FALSE) >>,
          rejects |-> FALSE]

\* mutant: setIsLoading(false) at the end of the try block instead of in finally
settle_noFinally(o, now, requestId) ==
    IF o.kind = "object"
    THEN [updates |-> << appendMessage(Message(now + 1, outputOrFallback(o), "bot", now, requestId)),
                         setIsLoading(FALSE) >>,
          rejects |-> FALSE]
    ELSE [updates |-> << appendMessage(Message(now + 1, ERROR_TEXT, "bot", now, requestId)) >>,
          rejects |-> FALSE]

\* mutant: try / finally without the catch block
settle_noCatch(o, now, requestId) ==
    IF o.kind = "object"
    THEN [updates |-> << appendMessage(Message(now + 1, outputOrFallback(o), "bot", now, requestId)),
                         setIsLoading(FALSE) >>,
          rejects |-> FALSE]
    ELSE [updates |-> << setIsLoading(FALSE) >>, rejects |-> TRUE]

\* mutant: the reply is given a requestId of its own
settle_freshRequestId(o, now, requestId) ==
    LET own == generateUniqueId(now + 1, 0)
    IN  IF o.kind = "object"
        THEN [updates |-> << appendMessage(Message(now + 1, outputOrFallback(o), "bot", now, own)),
                             setIsLoading(FALSE) >>,
              rejects |-> FALSE]
        ELSE [updates |-> << appendMessage(Message(now + 1, ERROR_TEXT, "bot", now, own)),
                             setIsLoading(FALSE) >>,
              rejects |-> FALSE]

\* the try / catch / finally of sendMessage after the await:
\* the state updates it requests and whether the promise rejects
settle(o, now, requestId) ==
    IF o.kind = "object"
    THEN [updates |-> << appendMessage(Message(now + 1, outputOrFallback(o), "bot", now, requestId)),
                         setIsLoading(FALSE) >>,
          rejects |-> FALSE]
    ELSE [updates |-> << appendMessage(Message(now + 1, ERROR_TEXT, "bot", now, requestId)),
                         setIsLoading(FALSE) >>,
          rejects |-> FALSE]

\* mutant: the guard does not look at isLoading
sendGuard_ignoresLoading == trim(inputMessage) # << >>

\* mutant: && in place of || in the guard
sendGuard_andForOr == trim(inputMessage) # << >> \/ ~isLoading

\* mutant: the guard tests inputMessage without trimming it
sendGuard_noTrim == inputMessage # << >> /\ ~isLoading

\* if (!inputMessage.trim() || isLoading) return;
sendGuard == trim(inputMessage) # << >> /\ ~isLoading

(* ------------------------------ hydrate -------------------------------- *)
welcomeMessage(now) == Message(now, WELCOME_TEXT, "bot", now, NoRequestId)

\* mount effect of ChatApp: the updates it requests and the history item it leaves
hydrateChatApp(st) ==
    CASE st.history.state = "json" ->
            [updates |-> << setMessages(reviveMessages(st.history.value)) >>, store |-> st]
      [] st.history.state = "corrupt" ->
            [updates |-> << >>, store |-> [st EXCEPT !.history = Absent]]
      [] OTHER -> [updates |-> << >>, store |-> st]

\* mutant: the welcome message is put in front of a stored history too
hydrateWidget_alwaysWelcome(st, now, sessionId) ==
    LET savedMessages == getFromLocalStorage(st.history)
        updates == IF ~savedMessages.isNull /\ Len(savedMessages.value) > 0
                   THEN << setMessages(<< welcomeMessage(now) >> \o reviveMessages(savedMessages.value)) >>
                   ELSE << setMessages(<< welcomeMessage(now) >>) >>
    IN  [updates |-> updates, store |-> [st EXCEPT !.session = Json(sessionId)]]

\* mount effect of SupportChatWidget
hydrateWidget(st, now, sessionId) ==
    LET savedMessages == getFromLocalStorage(st.history)
        updates == IF ~savedMessages.isNull /\ Len(savedMessages.value) > 0
                   THEN << setMessages(reviveMessages(savedMessages.value)) >>
                   ELSE << setMessages(<< welcomeMessage(now) >>) >>
    IN  [updates |-> updates, store |-> [st EXCEPT !.session = Json(sessionId)]]

NoSession == << >>

\* mutant: a new id at every mount
initUserSessionId_alwaysNew(existing, now, rnd) ==
    generateUniqueId(now, rnd)

\* useState(() => getFromLocalStorage(USER_SESSION) || generateUniqueId())
initUserSessionId(existing, now, rnd) ==
    IF existing.isNull THEN generateUniqueId(now, rnd) ELSE existing.value

(* ------------------------------ actions -------------------------------- *)
\* first render of a new component instance and its mount effects: the
\* hydrate effect, then the save effect, which sees the initial empty history
Mount ==
    /\ ~mounted
    /\ instance < MaxMounts
    /\ mounted' = TRUE
    /\ instance' = instance + 1
    /\ messages' = << >>
    /\ isLoading' = FALSE
    /\ inputMessage' = << >>
    /\ \E rnd \in RandomValues :
         LET existing == getFromLocalStorage(store.session)
             sid == IF variant = "Widget" THEN initUserSessionId(existing, clock, rnd)
                                          ELSE NoSession
             h == IF variant = "Widget" THEN hydrateWidget(store, clock, sid)
                                        ELSE hydrateChatApp(store)
         IN  /\ userSessionId' = sid
             /\ queue' = h.updates
             /\ store' = saveEffect(variant, << >>, h.store)
    /\ ignoredCall' = FALSE
    /\ lastOutcome' = NoOutcome
    /\ UNCHANGED << peer, formatterVars, variant, clock, requests, nSends, rejected >>

\* the component is removed (navigation, reload); its state is gone
Unmount ==
    /\ mounted
    /\ mounted' = FALSE
    /\ messages' = << >>
    /\ isLoading' = FALSE
    /\ inputMessage' = << >>
    /\ queue' = << >>
    /\ userSessionId' = NoSession
    /\ requests' = { }
    /\ ignoredCall' = FALSE
    /\ lastOutcome' = NoOutcome
    /\ UNCHANGED << peer, formatterVars, variant, clock, instance, store, nSends, rejected >>

\* React renders the queued updates
Render ==
    /\ mounted
    /\ queue # << >>
    /\ Commit(queue)
    /\ UNCHANGED << peer, formatterVars, variant, clock, mounted, instance, userSessionId, requests, nSends, rejected >>

\* onChange of the textarea
TypeInput ==
    /\ mounted
    /\ \E t \in TypeTexts :
         /\ t # inputMessage
         /\ Commit(Append(queue, setInputMessage(t)))
    /\ UNCHANGED << peer, formatterVars, variant, clock, mounted, instance, userSessionId, requests, nSends, rejected >>

\* mutant: the prompt is trimmed before it is sent
requestBody_trimmedPrompt(prompt, requestId, sessionId, now) ==
    [prompt |-> trim(prompt), requestId |-> requestId, sessionId |-> sessionId,
     timestamp |-> toISOString(Date(now))]

\* body of the POST (ChatApp sends the prompt alone)
requestBody(prompt, requestId, sessionId, now) ==
    [prompt |-> prompt, requestId |-> requestId, sessionId |-> sessionId,
     timestamp |-> toISOString(Date(now))]

\* sendMessage up to the await, for a call the guard lets through; fetch is
\* called inside the handler, before React renders the updates the handler
\* asked for, so what the store holds at that moment is kept with the request
SendAccepted ==
    /\ mounted
    /\ nSends < MaxSends
    /\ sendGuard
    /\ nSends' = nSends + 1
    /\ \E rnd \in RandomValues :
         LET requestId == IF variant = "Widget" THEN generateUniqueId(clock, rnd) ELSE NoRequestId
             userMessage == Message(clock, inputMessage, "user", clock, requestId)
         IN  /\ Commit(queue \o << appendMessage(userMessage), setInputMessage(<< >>), setIsLoading(TRUE) >>)
             /\ requests' = requests \cup
                  { [seq |-> nSends + 1, inst |-> instance, storedAtFetch |-> store.history]
                    @@ requestBody(inputMessage, requestId, userSessionId, clock) }
    /\ UNCHANGED << peer, formatterVars, variant, clock, mounted, instance, userSessionId, rejected >>

\* sendMessage returning at its first line
SendIgnored ==
    /\ mounted
    /\ ~sendGuard
    /\ ignoredCall' = TRUE
    /\ UNCHANGED << peer, formatterVars, variant, clock, mounted, instance, userSessionId, messages, isLoading,
                    inputMessage, queue, store, requests, nSends, lastOutcome, rejected >>

sendMessage == SendAccepted \/ SendIgnored

\* the request settles and sendMessage resumes after its await
Settle ==
    /\ \E r \in requests, o \in Outcomes :
         /\ mounted /\ r.inst = instance
         /\ requests' = requests \ { r }
         /\ LET res == settle(o, clock, r.requestId)
            IN  /\ queue' = queue \o res.updates
                /\ rejected' = (rejected \/ res.rejects)
                /\ lastOutcome' = o
    /\ UNCHANGED << peer, formatterVars, variant, clock, mounted, instance, userSessionId, messages, isLoading,
                    inputMessage, store, nSends, ignoredCall >>

\* Date.now() advances
Tick ==
    /\ clock < ClockStart + MaxTicks
    /\ clock' = clock + 1
    /\ UNCHANGED << peer, formatterVars, variant, mounted, instance, userSessionId, messages, isLoading,
                    inputMessage, queue, store, requests, nSends, ignoredCall, lastOutcome, rejected >>

(* --------------------- a second instance, same store ------------------- *)
\* The same component open in another tab over the same localStorage.  Its
\* state is kept in `peer`; each of its steps is taken with the render that
\* follows it, so its save effect has run when the step ends.
NoPeer == [mounted |-> FALSE, messages |-> << >>, isLoading |-> FALSE,
           requestId |-> NoRequestId, sends |-> 0]

PeerState(input) == [messages |-> peer.messages, isLoading |-> peer.isLoading, inputMessage |-> input]

\* first render and mount effects of the second instance
PeerMount ==
    /\ ~peer.mounted
    /\ \E rnd \in PeerRandomValues :
         LET existing == getFromLocalStorage(store.session)
             sid == IF variant = "Widget" THEN initUserSessionId(existing, clock, rnd)
                                          ELSE NoSession
             h == IF variant = "Widget" THEN hydrateWidget(store, clock, sid)
                                        ELSE hydrateChatApp(store)
             st == applyUpdates(PeerState(<< >>), h.updates)
         IN  /\ peer' = [peer EXCEPT !.mounted = TRUE, !.messages = st.messages]
             /\ store' = IF touchesMessages(h.updates)
                          THEN saveEffect(variant, st.messages, h.store) ELSE h.store
    /\ UNCHANGED << formatterVars, variant, clock, mounted, instance, userSessionId, messages,
                    isLoading, inputMessage, queue, requests, nSends, ignoredCall,
                    lastOutcome, rejected >>

\* sendMessage of the second instance, up to the await
PeerSend ==
    /\ peer.mounted
    /\ peer.sends < MaxPeerSends
    /\ \E t \in PeerTexts, rnd \in PeerRandomValues :
         /\ trim(t) # << >> /\ ~peer.isLoading
         /\ LET requestId == IF variant = "Widget" THEN generateUniqueId(clock, rnd) ELSE NoRequestId
                userMessage == Message(clock, t, "user", clock, requestId)
                st == applyUpdates(PeerState(t), << appendMessage(userMessage),
                                                    setInputMessage(<< >>), setIsLoading(TRUE) >>)
            IN  /\ peer' = [peer EXCEPT !.messages = st.messages, !.isLoading = st.isLoading,
                                        !.requestId = requestId, !.sends = @ + 1]
                /\ store' = saveEffect(variant, st.messages, store)
    /\ UNCHANGED << formatterVars, variant, clock, mounted, instance, userSessionId, messages,
                    isLoading, inputMessage, queue, requests, nSends, ignoredCall,
                    lastOutcome, rejected >>

\* the second instance's request settles
PeerSettle ==
    /\ peer.mounted
    /\ peer.isLoading
    /\ \E o \in Outcomes :
         LET res == settle(o, clock, peer.requestId)
             st == applyUpdates(PeerState(<< >>), res.updates)
         IN  /\ peer' = [peer EXCEPT !.messages = st.messages, !.isLoading = st.isLoading,
                                     !.requestId = NoRequestId]
             /\ store' = IF touchesMessages(res.updates)
                          THEN saveEffect(variant, st.messages, store) ELSE store
             /\ rejected' = (rejected \/ res.rejects)
    /\ UNCHANGED << formatterVars, variant, clock, mounted, instance, userSessionId, messages,
                    isLoading, inputMessage, queue, requests, nSends, ignoredCall,
                    lastOutcome >>

(* ---------------------------- formatMessage ---------------------------- *)
\* String.prototype.includes / startsWith / endsWith / slice(from, -fromEnd)
includes(s, pat) == \E i \in 1..(Len(s) - Len(pat) + 1) : SubSeq(s, i, i + Len(pat) - 1) = pat
startsWith(s, pat) == Len(s) >= Len(pat) /\ SubSeq(s, 1, Len(pat)) = pat
endsWith(s, pat) == Len(s) >= Len(pat) /\ SubSeq(s, Len(s) - Len(pat) + 1, Len(s)) = pat
\* mutant: the end index is ignored
slice_toTheEnd(s, from, fromEnd) == SubSeq(s, from + 1, Len(s))
slice(s, from, fromEnd) == SubSeq(s, from + 1, Len(s) - fromEnd)

\* String.prototype.split with a one-character separator
RECURSIVE split(_, _)
split(s, sep) ==
    IF \A i \in 1..Len(s) : s[i] # sep
    THEN << s >>
    ELSE LET at == SetMin({ i \in 1..Len(s) : s[i] = sep })
         IN  << SubSeq(s, 1, at - 1) >> \o split(SubSeq(s, at + 1, Len(s)), sep)

Stars == << "*", "*" >>
Dashes == << "-", "-", "-" >>

\* the leftmost match of /\*\*.*?\*\*/ in s: the first position with "**"
\* that has another "**" behind it, and the nearest such closing "**"
boldOpenings(s) ==
    { i \in 1..(Len(s) - 3) : /\ SubSeq(s, i, i + 1) = Stars
                        /\ \E j \in (i + 2)..(Len(s) - 1) : SubSeq(s, j, j + 1) = Stars }
boldMatch(s) ==
    LET from == SetMin(boldOpenings(s))
        close == SetMin({ j \in (from + 2)..(Len(s) - 1) : SubSeq(s, j, j + 1) = Stars })
    IN  [from |-> from, to |-> close + 1]

\* line.split(/(\*\*.*?\*\*)/): the text between the matches and the matches
RECURSIVE splitBold(_)
splitBold(s) ==
    IF boldOpenings(s) = { }
    THEN << s >>
    ELSE LET m == boldMatch(s)
         IN  << SubSeq(s, 1, m.from - 1), SubSeq(s, m.from, m.to) >>
                \o splitBold(SubSeq(s, m.to + 1, Len(s)))

\* cell.replace(/\*\*(.*?)\*\*/g, '$1')
RECURSIVE replaceBold(_)
replaceBold(s) ==
    IF boldOpenings(s) = { }
    THEN s
    ELSE LET m == boldMatch(s)
         IN  SubSeq(s, 1, m.from - 1) \o SubSeq(s, m.from + 2, m.to - 2)
                \o replaceBold(SubSeq(s, m.to + 1, Len(s)))

\* the element formatMessage returns for a line: a divider, a grid row of
\* cells (the first one styled as the label), a line of plain and
\* emphasized spans, an italic line, an empty div, or a div with the line
Block(kind, text, cells, runs) == [kind |-> kind, text |-> text, cells |-> cells, runs |-> runs]
Divider == Block("divider", << >>, << >>, << >>)
Row(cells) == Block("row", << >>, cells, << >>)
Spans(runs) == Block("bold", << >>, << >>, runs)
Italic(text) == Block("italic", text, << >>, << >>)
Spacer == Block("blank", << >>, << >>, << >>)
Plain(text) == Block("text", text, << >>, << >>)

notBlank(cell) == trim(cell) # << >>
rowCells(line) == SelectSeq(split(line, "|"), notBlank)
\* mutant: the markers are left in the cell
cellText_keepsMarkers(cell) == trim(cell)
cellText(cell) == replaceBold(trim(cell))
span(part) ==
    IF startsWith(part, Stars) /\ endsWith(part, Stars)
    THEN [text |-> slice(part, 2, 2), emphasized |-> TRUE]
    ELSE [text |-> part, emphasized |-> FALSE]

\* the conditions of the if statements of the map callback
isDivider(line) == includes(line, << "|" >>) /\ includes(line, Dashes)
\* mutant: one cell is enough for a row
isRow_oneCell(line) == includes(line, << "|" >>) /\ Len(rowCells(line)) > 0
isRow(line) == includes(line, << "|" >>) /\ Len(rowCells(line)) > 1
isBold(line) == includes(line, Stars)
isItalic(line) == startsWith(line, << "*" >>) /\ endsWith(line, << "*" >>) /\ ~startsWith(line, Stars)
isBlank(line) == trim(line) = << >>

boldBlock(line) == Spans([i \in 1..Len(splitBold(line)) |-> span(splitBold(line)[i])])
\* a column of the row; the first one has the label style (cellIndex === 0)
rowBlock(line) ==
    Row([i \in 1..Len(rowCells(line)) |->
            [text |-> cellText(rowCells(line)[i]), label |-> (i = 1)]])

\* mutant: the row test ahead of the divider test
formatLine_rowFirst(line) ==
    IF isRow(line) THEN rowBlock(line)
    ELSE IF isDivider(line) THEN Divider
    ELSE IF isBold(line) THEN boldBlock(line)
    ELSE IF isItalic(line) THEN Italic(slice(line, 1, 1))
    ELSE IF isBlank(line) THEN Spacer
    ELSE Plain(line)

\* mutant: the default branch shows the trimmed line
formatLine_trimsPlain(line) ==
    IF isDivider(line) THEN Divider
    ELSE IF isRow(line) THEN rowBlock(line)
    ELSE IF isBold(line) THEN boldBlock(line)
    ELSE IF isItalic(line) THEN Italic(slice(line, 1, 1))
    ELSE IF isBlank(line) THEN Spacer
    ELSE Plain(trim(line))

\* mutant: the italic test ahead of the bold test
formatLine_italicFirst(line) ==
    IF isDivider(line) THEN Divider
    ELSE IF isRow(line) THEN rowBlock(line)
    ELSE IF isItalic(line) THEN Italic(slice(line, 1, 1))
    ELSE IF isBold(line) THEN boldBlock(line)
    ELSE IF isBlank(line) THEN Spacer
    ELSE Plain(line)

\* the callback of lines.map
formatLine(line) ==
    IF isDivider(line) THEN Divider
    ELSE IF isRow(line) THEN rowBlock(line)
    ELSE IF isBold(line) THEN boldBlock(line)
    ELSE IF isItalic(line) THEN Italic(slice(line, 1, 1))
    ELSE IF isBlank(line) THEN Spacer
    ELSE Plain(line)

formatMessage(text) ==
    LET lines == split(text, "\n")
    IN  [i \in 1..Len(lines) |-> formatLine(lines[i])]

\* a bot message is rendered: formatMessage(message.text)
FormatMessage ==
    /\ blocks = << >>
    /\ blocks' = formatMessage(rawText)
    /\ UNCHANGED << rawText, formattedText, peer, variant, clock, mounted, instance, userSessionId, messages,
                    isLoading, inputMessage, queue, store, requests, nSends, ignoredCall,
                    lastOutcome, rejected >>

(* ------------------------- formatTextWithImages ------------------------ *)
\* the i flag: letters of the pattern match in either case
toLowerCase(c) ==
    CASE c = "H" -> "h" [] c = "T" -> "t" [] c = "P" -> "p" [] c = "S" -> "s"
      [] c = "N" -> "n" [] c = "G" -> "g" [] c = "J" -> "j" [] c = "E" -> "e"
      [] c = "I" -> "i" [] c = "F" -> "f" [] OTHER -> c
lower(s) == [i \in 1..Len(s) |-> toLowerCase(s[i])]

HTTP == << "h", "t", "t", "p", ":", "/", "/" >>
HTTPS == << "h", "t", "t", "p", "s", ":", "/", "/" >>
ImageExtensions == { << ".", "p", "n", "g" >>, << ".", "j", "p", "g" >>, << ".", "j", "p", "e", "g" >>, << ".", "g", "i", "f" >> }
IMAGE_OPEN == << "!", "[", "]", "(" >>
IMAGE_CLOSE == << ")" >>

\* https?:\/\/ at position i of s: the length of what it matches, or 0
schemeAt(s, i) ==
    LET rest == lower(SubSeq(s, i, Len(s)))
    IN  IF startsWith(rest, HTTPS) THEN Len(HTTPS)
        ELSE IF startsWith(rest, HTTP) THEN Len(HTTP)
        ELSE 0

\* the end of the match of https?:\/\/[^\s]+(\.png|\.jpg|\.jpeg|\.gif) that
\* starts at position i of s, or 0: [^\s]+ is greedy, so the extension taken
\* is the last one in the run of non-whitespace characters
imageMatchEnd(s, i) ==
    LET from == i + schemeAt(s, i)
        spaces == { k \in from..Len(s) : s[k] \in Whitespace }
        runEnd == IF spaces = { } THEN Len(s) ELSE SetMin(spaces) - 1
        ends == { p + Len(ext) - 1 : p \in (from + 1)..runEnd, ext \in ImageExtensions }
        found == { e \in ends : \E ext \in ImageExtensions :
                      /\ e <= runEnd
                      /\ e - Len(ext) >= from
                      /\ lower(SubSeq(s, e - Len(ext) + 1, e)) = ext }
    IN  IF schemeAt(s, i) = 0 \/ found = { } THEN 0 ELSE SetMax(found)

\* input.replace(/(https?:\/\/[^\s]+(\.png|\.jpg|\.jpeg|\.gif))/gi, "![]($1)")
RECURSIVE formatTextWithImages(_)
formatTextWithImages(input) ==
    LET starts == { i \in 1..Len(input) : imageMatchEnd(input, i) > 0 }
    IN  IF starts = { }
        THEN input
        ELSE LET i == SetMin(starts)
                 e == imageMatchEnd(input, i)
             IN  SubSeq(input, 1, i - 1) \o IMAGE_OPEN \o SubSeq(input, i, e) \o IMAGE_CLOSE
                    \o formatTextWithImages(SubSeq(input, e + 1, Len(input)))

NotFormatted == [done |-> FALSE, text |-> << >>]

\* ChatResponseView renders a text: the pre-pass runs on it
FormatTextWithImages ==
    /\ ~formattedText.done
    /\ formattedText' = [done |-> TRUE, text |-> formatTextWithImages(rawText)]
    /\ UNCHANGED << rawText, blocks, peer, variant, clock, mounted, instance, userSessionId,
                    messages, isLoading, inputMessage, queue, store, requests, nSends,
                    ignoredCall, lastOutcome, rejected >>

(* --------------------------- specifications ---------------------------- *)
InitCommon ==
    /\ variant \in { "ChatApp", "Widget" }
    /\ clock = ClockStart
    /\ mounted = FALSE
    /\ instance = 0
    /\ userSessionId = NoSession
    /\ messages = << >>
    /\ isLoading = FALSE
    /\ inputMessage = << >>
    /\ queue = << >>
    /\ requests = { }
    /\ nSends = 0
    /\ ignoredCall = FALSE
    /\ lastOutcome = NoOutcome
    /\ rejected = FALSE
    /\ peer = NoPeer
    /\ rawText = << >>
    /\ blocks = << >>
    /\ formattedText = NotFormatted

Init ==
    /\ InitCommon
    /\ store \in { [history |-> h, session |-> Absent] : h \in { Absent, Corrupt } }

Next ==
    \/ Mount
    \/ Unmount
    \/ Render
    \/ TypeInput
    \/ SendAccepted
    \/ SendIgnored
    \/ Settle
    \/ Tick

Spec == Init /\ [][Next]_vars

\* two instances open at the same time over one store
NextTabs ==
    \/ Mount
    \/ Render
    \/ TypeInput
    \/ SendAccepted
    \/ Settle
    \/ PeerMount
    \/ PeerSend
    \/ PeerSettle

SpecTabs == Init /\ [][NextTabs]_vars

\* formatMessage over every text of up to MaxTextLen characters and over
\* some longer ones
Texts == UNION { [1..n -> Alphabet] : n \in 0..MaxTextLen } \cup SampleTexts

InitFormat ==
    /\ variant = "ChatApp"
    /\ clock = ClockStart
    /\ mounted = FALSE
    /\ instance = 0
    /\ userSessionId = NoSession
    /\ messages = << >>
    /\ isLoading = FALSE
    /\ inputMessage = << >>
    /\ queue = << >>
    /\ store = [history |-> Absent, session |-> Absent]
    /\ requests = { }
    /\ nSends = 0
    /\ ignoredCall = FALSE
    /\ lastOutcome = NoOutcome
    /\ rejected = FALSE
    /\ peer = NoPeer
    /\ rawText \in Texts
    /\ blocks = << >>
    /\ formattedText = NotFormatted

NextFormat == FormatMessage

SpecFormat == InitFormat /\ [][NextFormat]_vars

\* the image pre-pass over texts made of a lead, a scheme, a host, an
\* extension and a tail
UrlTexts ==
    { lead \o scheme \o host \o ext \o tail :
        lead \in UrlLeads, scheme \in UrlSchemes, host \in UrlHosts,
        ext \in UrlExtensions, tail \in UrlTails }

InitImages ==
    /\ variant = "Widget"
    /\ clock = ClockStart
    /\ mounted = FALSE
    /\ instance = 0
    /\ userSessionId = NoSession
    /\ messages = << >>
    /\ isLoading = FALSE
    /\ inputMessage = << >>
    /\ queue = << >>
    /\ store = [history |-> Absent, session |-> Absent]
    /\ requests = { }
    /\ nSends = 0
    /\ ignoredCall = FALSE
    /\ lastOutcome = NoOutcome
    /\ rejected = FALSE
    /\ peer = NoPeer
    /\ rawText \in UrlTexts
    /\ blocks = << >>
    /\ formattedText = NotFormatted

NextImages == FormatTextWithImages

SpecImages == InitImages /\ [][NextImages]_vars

\* the event loop runs a scheduled render, and the transport ends every request
FairSpec == Spec /\ WF_vars(Render) /\ WF_vars(Settle)

\* a history left in the store by earlier use: alternating user messages and
\* replies (after the welcome message, in the widget), one millisecond apart
PrefilledMessage(v, i) ==
    LET isUser == IF v = "Widget" THEN i % 2 = 0 ELSE i % 2 = 1
        sentAt == IF isUser \/ i = 1 THEN i ELSE i - 1
        requestId == IF v = "Widget" /\ i > 1 THEN generateUniqueId(sentAt, 0) ELSE NoRequestId
        text == IF isUser THEN << "h", "i" >> ELSE IF i = 1 /\ v = "Widget" THEN WELCOME_TEXT ELSE << "o", "k" >>
    IN  Message(i, text, IF isUser THEN "user" ELSE "bot", sentAt, requestId)

Prefilled(v) == stringifyMessages([i \in 1..PrefillLen |-> PrefilledMessage(v, i)])

InitRetention ==
    /\ InitCommon
    /\ store = [history |-> Json(Prefilled(variant)),
                session |-> IF variant = "Widget" THEN Json(generateUniqueId(0, 0)) ELSE Absent]

SpecRetention == InitRetention /\ [][Next]_vars

(* ------------------------------ properties ----------------------------- *)
\* the history as it stands once every requested update is rendered
History == applyUpdates(Committed, queue).messages
PendingAfterRender == applyUpdates(Committed, queue).isLoading

LiveRequests == { r \in requests : mounted /\ r.inst = instance }

\* steps, recognised by what they do to the history variables
CallStep == (~ignoredCall /\ ignoredCall') \/ nSends' = nSends + 1
LiveSettleStep == mounted /\ mounted' /\ \E r \in LiveRequests : requests' = requests \ { r }
SameInstanceStep == mounted /\ mounted' /\ instance' = instance

UserIndexes(h) == { i \in 1..Len(h) : h[i].sender = "user" }
BotIndexes(h) == { i \in 1..Len(h) : h[i].sender = "bot" }

\* C1: a call of sendMessage with non-blank input while isLoading is false
\* appends exactly one user message (and issues one request); the settlement
\* of that request appends exactly one bot message; no other step of the
\* same controller instance changes the history.
C1_OneUserOneBotPerCall ==
    [][ /\ (CallStep /\ trim(inputMessage) # << >> /\ ~isLoading) =>
              /\ Len(History') = Len(History) + 1
              /\ SubSeq(History', 1, Len(History)) = History
              /\ History'[Len(History')].sender = "user"
              /\ History'[Len(History')].text = inputMessage
              /\ Cardinality(LiveRequests') = Cardinality(LiveRequests) + 1
        /\ LiveSettleStep =>
              /\ Len(History') = Len(History) + 1
              /\ SubSeq(History', 1, Len(History)) = History
              /\ History'[Len(History')].sender = "bot"
        /\ (SameInstanceStep /\ ~LiveSettleStep /\ ~(CallStep /\ trim(inputMessage) # << >> /\ ~isLoading)) =>
              History' = History
      ]_vars

C1_Witness ==
    /\ mounted /\ instance = 1 /\ queue = << >> /\ ~isLoading /\ requests = { }
    /\ nSends = 1
    /\ Len(messages) >= 2
    /\ messages[Len(messages) - 1].sender = "user"
    /\ messages[Len(messages)].sender = "bot"
    /\ Cardinality(UserIndexes(messages)) = 1

\* C2: no controller instance ever has more than one request outstanding.
C2_AtMostOneOutstanding ==
    \A i \in 0..instance : Cardinality({ r \in requests : r.inst = i }) <= 1

C2_Witness ==
    /\ mounted /\ Cardinality(LiveRequests) = 1
    /\ trim(inputMessage) # << >>
    /\ isLoading /\ ignoredCall

\* C3: a call of sendMessage while isLoading is true changes nothing: same
\* history, no new request, isLoading still true.
C3_NoOpWhilePending ==
    [][ (CallStep /\ isLoading) =>
            /\ UNCHANGED << messages, queue, requests, store, inputMessage >>
            /\ isLoading' ]_vars

C3_Witness ==
    /\ mounted /\ isLoading
    /\ ignoredCall /\ trim(inputMessage) # << >>

\* C4: a call of sendMessage with empty or whitespace-only input changes
\* nothing: no user message, no request, isLoading as before, nothing thrown.
C4_NoOpOnBlankInput ==
    [][ (CallStep /\ trim(inputMessage) = << >>) =>
            /\ UNCHANGED << messages, queue, requests, store, isLoading, rejected >>
            /\ ~rejected' ]_vars

C4_Witness ==
    /\ mounted /\ ~isLoading /\ requests = { }
    /\ nSends = 0
    /\ ignoredCall /\ inputMessage # << >> /\ trim(inputMessage) = << >>

\* the request that a step settles, and what the step appends
Settles(r) == r \in LiveRequests /\ mounted' /\ requests' = requests \ { r }
AppendsBot(text) ==
    /\ Len(History') = Len(History) + 1
    /\ SubSeq(History', 1, Len(History)) = History
    /\ History'[Len(History')].sender = "bot"
    /\ History'[Len(History')].text = text

\* C5: isLoading becomes true at dispatch, is true as long as the request
\* is outstanding, and is false once the settlement is rendered, on the
\* success path and on every failure path; given that requests settle and
\* renders run, a pending controller always returns to idle.
C5_IdlePendingIdle ==
    /\ [](LiveRequests # { } => isLoading)
    /\ []((mounted /\ queue = << >> /\ LiveRequests = { }) => ~isLoading)
    /\ [][ /\ (\E r \in LiveRequests : Settles(r)) => ~PendingAfterRender'
           /\ (nSends' = nSends + 1) => (~isLoading /\ isLoading') ]_vars
    /\ (isLoading ~> ~isLoading)

C5_Witness ==
    /\ mounted /\ instance = 1 /\ nSends = 2
    /\ ~isLoading /\ queue = << >> /\ requests = { }
    /\ Len(messages) >= 4
    /\ messages[Len(messages)].sender = "bot"
    /\ messages[Len(messages) - 2].text = ERROR_TEXT

\* C6: when the request fails (fetch rejects, the status is not 2xx, or the
\* body is not JSON), sendMessage appends a bot message with the fixed error
\* text, leaves isLoading false, and its promise does not reject.
C6_FailureAppendsErrorText ==
    [][ \A r \in LiveRequests :
          (Settles(r) /\ lastOutcome'.kind \in { "network", "status", "unparseable" }) =>
             /\ AppendsBot(ERROR_TEXT)
             /\ ~PendingAfterRender'
             /\ ~rejected' ]_vars

C6_Witness ==
    /\ mounted /\ instance = 1 /\ nSends = 1
    /\ ~isLoading /\ queue = << >> /\ requests = { } /\ ~rejected
    /\ messages[Len(messages)].sender = "bot"
    /\ messages[Len(messages)].text = ERROR_TEXT

\* C7: when the response is 2xx with a JSON object body, the appended bot
\* message carries the output field if it is present and non-empty and the
\* fixed fallback text otherwise, never the error text.
C7_SuccessAppendsOutputOrFallback ==
    [][ \A r \in LiveRequests :
          (Settles(r) /\ lastOutcome'.kind = "object") =>
             /\ (lastOutcome'.hasOutput /\ lastOutcome'.output # << >>) => AppendsBot(lastOutcome'.output)
             /\ ~(lastOutcome'.hasOutput /\ lastOutcome'.output # << >>) => AppendsBot(FALLBACK_TEXT)
             /\ History'[Len(History')].text # ERROR_TEXT ]_vars

C7_Witness ==
    /\ mounted /\ instance = 1 /\ nSends = 2
    /\ ~isLoading /\ queue = << >> /\ requests = { }
    /\ messages[Len(messages)].text = FALLBACK_TEXT
    /\ \E i \in 1..Len(messages) : messages[i].text \in OutputTexts

IdsIncreasing(h) == \A i, j \in 1..Len(h) : i < j => h[i].id < h[j].id

\* C8: the ids of the messages of the history are strictly increasing in
\* history order (hence pairwise distinct), whatever the clock does.
C8_IdsStrictlyIncreasing == IdsIncreasing(messages)

RequestIdOrder(h) ==
    \A j \in 1..Len(h) :
        (h[j].sender = "bot" /\ h[j].requestId # NoRequestId) =>
            \E i \in 1..(j - 1) : h[i].sender = "user" /\ h[i].requestId = h[j].requestId

\* C9: every bot message that carries a requestId comes after a user
\* message with the same requestId, in the live history and in the store.
C9_ReplyAfterItsRequest ==
    /\ RequestIdOrder(messages)
    /\ RequestIdOrder(History)
    /\ store.history.state = "json" => RequestIdOrder(store.history.value)

C9_Witness ==
    /\ variant = "Widget" /\ mounted /\ instance = 2 /\ queue = << >>
    /\ \E j \in 1..Len(messages) :
         messages[j].sender = "bot" /\ messages[j].requestId # NoRequestId

\* C10: once the history holds more than 100 messages, the stored history
\* is exactly its last 100 messages, in order.
C10_PersistedIsLastN ==
    (mounted /\ queue = << >> /\ Len(messages) > RETENTION) =>
        store.history =
            Json(stringifyMessages(SubSeq(messages, Len(messages) - RETENTION + 1, Len(messages))))

TupleOf(m) == << m.text, m.sender, m.requestId >>
Tuples(h) == [i \in 1..Len(h) |-> TupleOf(h[i])]
IsSuffix(s, h) == Len(s) <= Len(h) /\ SubSeq(h, Len(h) - Len(s) + 1, Len(h)) = s
HydrateStep == ~mounted /\ mounted'
StoredHistory == IF store.history.state = "json" THEN store.history.value ELSE << >>

\* C11: a history written to the store and read back by a newly mounted
\* controller comes back message by message: what a write leaves in the
\* store, read back, is the trailing part of the writer's history (all of it
\* up to RETENTION messages), and hydrating from a stored history yields the
\* same (text, sender, requestId) triples in the same order, each timestamp
\* a Date rebuilt from the stored string.
C11_RoundTrip ==
    [][ /\ (SameInstanceStep /\ store'.history # store.history) =>
              /\ store'.history.state = "json"
              /\ LET back == reviveMessages(store'.history.value)
                 IN  /\ IsSuffix(back, messages')
                     /\ Len(messages') <= RETENTION => back = messages'
        /\ (HydrateStep /\ StoredHistory # << >>) =>
              /\ Tuples(History') = Tuples(StoredHistory)
              /\ \A i \in 1..Len(StoredHistory) :
                    /\ History'[i].timestamp.kind = "Date"
                    /\ History'[i].timestamp = parseDate(StoredHistory[i].timestamp)
      ]_vars

C11_Witness ==
    /\ mounted /\ instance = 2 /\ messages = << >> /\ queue # << >>
    /\ Len(History) >= 3
    /\ Tuples(History) = Tuples(StoredHistory)
    /\ \E i \in 1..Len(History) : History[i].sender = "user"
    /\ \E i \in 1..Len(History) : History[i].sender = "bot" /\ History[i].text \in OutputTexts

\* C12: when the stored history is corrupted, the controller that mounts
\* starts with an empty history, hydrate itself takes the corrupted record
\* out of the store, and nothing is thrown.
C12_CorruptRecordRemoved ==
    [][ (HydrateStep /\ store.history.state = "corrupt") =>
            /\ History' = << >>
            /\ store'.history.state = "absent"
            /\ ~rejected' ]_vars

\* C13: the widget's session id is made once and then reused: a mounted
\* widget holds the id that is in the store, an id in the store is never
\* replaced (so every later instance over the same store holds the first
\* instance's id), and every request carries the id of its instance.
C13_SessionIdStable ==
    /\ []((variant = "Widget" /\ mounted) =>
              /\ userSessionId # NoSession
              /\ store.session = Json(userSessionId))
    /\ [](variant = "Widget" => \A r \in requests : r.sessionId = userSessionId)
    /\ [][ store.session.state = "json" => store'.session = store.session ]_vars

C13_Witness ==
    /\ variant = "Widget" /\ mounted /\ instance = 2
    /\ userSessionId[1] < clock
    /\ \E r \in requests : r.inst = 2 /\ r.sessionId = userSessionId

\* C14: whenever a mounted controller has no update waiting to be rendered,
\* the stored history is the last RETENTION messages of its history (an
\* empty history goes with an absent record).
C14_QuiescentStoreIsWindow ==
    (mounted /\ queue = << >>) =>
        /\ store.history.state # "corrupt"
        /\ StoredHistory = stringifyMessages(messagesToSave(messages))

IsPrefix(s, h) == Len(s) <= Len(h) /\ SubSeq(h, 1, Len(s)) = s

\* C15: from hydration on, the history of a controller instance only grows
\* at its end: each step of the instance leaves the earlier history as a
\* prefix of the later one, rendered or still queued, also beyond RETENTION
\* messages, where only the stored copy is cut.
C15_HistoryAppendOnly ==
    [][ SameInstanceStep =>
            /\ IsPrefix(History, History')
            /\ IsPrefix(messages, messages')
            /\ IsPrefix(messages', History') ]_vars

C15_Witness ==
    /\ variant = "ChatApp" /\ mounted /\ queue = << >>
    /\ Len(messages) = RETENTION + 2
    /\ Len(StoredHistory) = RETENTION
    /\ messages[1] = reviveMessages(Prefilled("ChatApp"))[1]

\* C16: each accepted call of sendMessage issues exactly one request, and no
\* other step issues one (no retry after a failure); the prompt of the
\* request is the input text as typed, which is the text of the user message
\* the call appends, and the request carries that message's requestId (a
\* generated one in the widget).
C16_OneRequestPerSubmit ==
    [][ /\ (nSends' = nSends + 1) =>
              \E r \in requests' :
                 /\ r \notin requests
                 /\ requests' = requests \cup { r }
                 /\ r.prompt = inputMessage
                 /\ LET m == History'[Len(History')]
                    IN  /\ m.sender = "user"
                        /\ m.text = r.prompt
                        /\ m.requestId = r.requestId
                 /\ variant = "Widget" => r.requestId # NoRequestId
        /\ (nSends' = nSends) => requests' \subseteq requests ]_vars

C16_Witness ==
    /\ variant = "Widget" /\ mounted /\ nSends = 2 /\ queue = << >>
    /\ \E r \in requests :
         /\ r.prompt = << " ", "h", "i" >>
         /\ messages[Len(messages)].text = r.prompt
         /\ messages[Len(messages)].requestId = r.requestId
    /\ \E i \in 1..Len(messages) : messages[i].text = ERROR_TEXT

\* the user message that sendMessage appended when it issued request r
IsUserMessageOf(m, r) ==
    /\ m.sender = "user" /\ m.text = r.prompt
    /\ m.requestId = r.requestId /\ m.id = r.timestamp.ms

\* C17: when the request of an accepted call is issued, the store already
\* holds the user message of that call; and as long as the request has not
\* settled, neither the history nor the store holds anything after that
\* user message.
C17_PersistBeforeRequest ==
    \A r \in LiveRequests :
        /\ r.storedAtFetch.state = "json"
        /\ \E i \in 1..Len(r.storedAtFetch.value) : IsUserMessageOf(r.storedAtFetch.value[i], r)
        /\ IsUserMessageOf(History[Len(History)], r)
        /\ IsUserMessageOf(StoredHistory[Len(StoredHistory)], r)

IsWelcome(m) == m.sender = "bot" /\ m.text = WELCOME_TEXT /\ m.requestId = NoRequestId
Welcomes(h) == { i \in 1..Len(h) : IsWelcome(h[i]) }

\* C19: a controller mounted over a store without a history record starts
\* with the empty history (ChatApp) or with the welcome message alone
\* (SupportChatWidget); mounted over a non-empty stored history it starts
\* with that history and adds no welcome message; so no history, live or
\* stored, ever holds more than one welcome message.
C19_HydrateSeeding ==
    /\ [][ HydrateStep =>
             /\ (store.history.state = "absent" /\ variant = "ChatApp") => History' = << >>
             /\ (store.history.state = "absent" /\ variant = "Widget") =>
                    (Len(History') = 1 /\ IsWelcome(History'[1]))
             /\ StoredHistory # << >> =>
                    /\ History' = reviveMessages(StoredHistory)
                    /\ Cardinality(Welcomes(History')) = Cardinality(Welcomes(StoredHistory)) ]_vars
    /\ [](/\ Cardinality(Welcomes(History)) <= 1
          /\ Cardinality(Welcomes(messages)) <= 1
          /\ Cardinality(Welcomes(StoredHistory)) <= 1)

C19_Witness ==
    /\ variant = "Widget" /\ mounted /\ instance = 2 /\ messages = << >>
    /\ Len(History) >= 3
    /\ History = reviveMessages(StoredHistory)
    /\ Welcomes(History) = { 1 }

PeerStep == peer' # peer

\* C18: two instances over one store run side by side without coordination:
\* a step of one leaves the history and the busy flag of the other as they
\* are, and every write of the stored history leaves exactly the writer's own
\* history in the store, whatever the other instance had stored there.
C18_LastWriterWins ==
    [][ /\ PeerStep => UNCHANGED << messages, isLoading, inputMessage, queue, requests >>
        /\ (<< messages, isLoading, inputMessage, queue, requests >>'
              # << messages, isLoading, inputMessage, queue, requests >>) => ~PeerStep
        /\ (store'.history # store.history /\ store'.history.state = "json") =>
              StoredHistory' = stringifyMessages(IF PeerStep THEN peer'.messages ELSE messages')
      ]_vars

\* the second instance sent a message and got its reply, both were stored;
\* then the first instance sent a message, and the store holds the first
\* instance's history only
C18_Witness ==
    /\ mounted /\ peer.mounted /\ queue = << >>
    /\ isLoading /\ ~peer.isLoading /\ peer.sends = 1
    /\ StoredHistory = stringifyMessages(messages)
    /\ \E i \in 1..Len(messages) : messages[i].sender = "user"
    /\ \E i \in 1..Len(peer.messages) :
         /\ peer.messages[i].sender = "user"
         /\ \A j \in 1..Len(StoredHistory) : StoredHistory[j].text # peer.messages[i].text

\* the rule of the formatter's rule list that produced a block, and the
\* first rule of that list whose condition a line meets
RuleOf(block) ==
    CASE block.kind \in { "divider", "row" } -> "table row"
      [] block.kind = "bold" -> "bold emphasis"
      [] block.kind = "italic" -> "italic line"
      [] block.kind = "blank" -> "blank line"
      [] block.kind = "text" -> "default"
FirstRule(line) ==
    IF isDivider(line) \/ isRow(line) THEN "table row"
    ELSE IF isBold(line) THEN "bold emphasis"
    ELSE IF isItalic(line) THEN "italic line"
    ELSE IF isBlank(line) THEN "blank line"
    ELSE "default"
Formatted == blocks # << >>
Lines == split(rawText, "\n")

\* C20: formatMessage returns one block for each line of the text, in the
\* order of the lines, and the block of a line is the one made by the first
\* rule, in the order table row, bold emphasis, italic line, blank line,
\* default, whose condition the line meets.
C20_OneBlockPerLine ==
    Formatted =>
        /\ Len(blocks) = Len(Lines)
        /\ \A i \in 1..Len(Lines) : RuleOf(blocks[i]) = FirstRule(Lines[i])
        /\ \A i \in 1..Len(Lines) : blocks[i].kind = "text" => blocks[i].text = Lines[i]

\* two lines: one that meets the bold and the italic condition, and an
\* empty one
C20_Witness ==
    /\ Formatted
    /\ rawText = << "*", "a", "*", "*", "\n" >>
    /\ << blocks[1].kind, blocks[2].kind >> = << "bold", "blank" >>

NoSpecialTokens(line) ==
    /\ ~includes(line, << "|" >>) /\ ~includes(line, Stars)
    /\ ~startsWith(line, << "*" >>) /\ ~endsWith(line, << "*" >>)

\* C21 as stated: every line without '|', without '**' and without a
\* leading or trailing '*' comes out as a plain text block holding the line
\* as it is (for the empty line, a block without text).
C21_PlainLineVerbatim ==
    Formatted =>
        \A i \in 1..Len(Lines) :
            NoSpecialTokens(Lines[i]) =>
                \/ blocks[i] = Plain(Lines[i])
                \/ (Lines[i] = << >> /\ blocks[i] = Spacer)

\* C21, amended: such a line comes out as a plain text block holding the
\* line as it is when it has a non-whitespace character, and as an empty
\* spacer block, its whitespace dropped, when it has none.
C21_PlainOrSpacer ==
    Formatted =>
        \A i \in 1..Len(Lines) :
            NoSpecialTokens(Lines[i]) =>
                /\ trim(Lines[i]) # << >> => blocks[i] = Plain(Lines[i])
                /\ trim(Lines[i]) = << >> => blocks[i] = Spacer

C21_Witness ==
    /\ Formatted
    /\ rawText = << " ", "a", "\n", " ", " " >>
    /\ blocks = << Plain(<< " ", "a" >>), Spacer >>

RECURSIVE withoutStars(_)
withoutStars(s) ==
    IF s = << >> THEN << >>
    ELSE (IF Head(s) = "*" THEN << >> ELSE << Head(s) >>) \o withoutStars(Tail(s))

\* C22: a line with '|' and without '---' whose pieces between the pipes
\* include two or more that are not blank comes out as one row block with
\* one column per such piece, in order, the first column and no other
\* marked as the label; a column shows its piece trimmed, and where the
\* piece holds '**text**' pairs, without those markers: no pair is left in
\* the column and nothing but asterisks is taken away.
C22_TableRow ==
    Formatted =>
        \A i \in 1..Len(Lines) :
            LET line == Lines[i]
                kept == SelectSeq(split(line, "|"), notBlank)
                cols == blocks[i].cells
            IN  (includes(line, << "|" >>) /\ ~includes(line, Dashes) /\ Len(kept) >= 2) =>
                    /\ blocks[i].kind = "row"
                    /\ Len(cols) = Len(kept)
                    /\ \A k \in 1..Len(kept) :
                          /\ cols[k].label = (k = 1)
                          /\ boldOpenings(cols[k].text) = { }
                          /\ withoutStars(cols[k].text) = withoutStars(trim(kept[k]))
                          /\ boldOpenings(kept[k]) = { } => cols[k].text = trim(kept[k])

C22_Witness ==
    /\ Formatted
    /\ blocks = << Row(<< [text |-> << "K", "e", "y" >>, label |-> TRUE],
                          [text |-> << "a", "b" >>, label |-> FALSE] >>) >>

\* C23: a line that holds '|' and three dashes in a row, with whatever else,
\* comes out as a divider block, which shows no text and no cells.
C23_DividerRow ==
    Formatted =>
        \A i \in 1..Len(Lines) :
            (includes(Lines[i], << "|" >>) /\ includes(Lines[i], Dashes)) =>
                /\ blocks[i].kind = "divider"
                /\ blocks[i].cells = << >> /\ blocks[i].text = << >> /\ blocks[i].runs = << >>

\* the line 'x | ----' after an italic line and an empty line
C23_Witness ==
    /\ Formatted
    /\ Len(Lines) = 3
    /\ Lines[3] = << "x", " ", "|", " ", "-", "-", "-", "-" >>
    /\ blocks[3] = Divider

\* the texts enclosed by the '**...**' pairs of a line, in order
RECURSIVE boldPairs(_)
boldPairs(s) ==
    IF boldOpenings(s) = { }
    THEN << >>
    ELSE LET m == boldMatch(s)
         IN  << SubSeq(s, m.from + 2, m.to - 2) >> \o boldPairs(SubSeq(s, m.to + 1, Len(s)))
RECURSIVE concatRuns(_)
concatRuns(runs) ==
    IF runs = << >> THEN << >> ELSE Head(runs).text \o concatRuns(Tail(runs))
isEmphasized(run) == run.emphasized
emphasizedTexts(runs) ==
    LET em == SelectSeq(runs, isEmphasized)
    IN  [k \in 1..Len(em) |-> em[k].text]

\* C24: a line with '**' that the table rule does not take comes out as one
\* block of runs; the emphasized runs are, in order, the texts enclosed by
\* the line's '**...**' pairs, nothing else is emphasized, and the runs put
\* together give the line without the markers of those pairs.
C24_BoldRuns ==
    Formatted =>
        \A i \in 1..Len(Lines) :
            (isBold(Lines[i]) /\ ~isDivider(Lines[i]) /\ ~isRow(Lines[i])) =>
                /\ blocks[i].kind = "bold"
                /\ emphasizedTexts(blocks[i].runs) = boldPairs(Lines[i])
                /\ concatRuns(blocks[i].runs) = replaceBold(Lines[i])

\* C25: a line that starts with '*', ends with '*', does not start with
\* '**', and is taken neither by the table rule nor by the bold rule comes
\* out as one italic block whose text is the line without its first and its
\* last character (no text at all for the line '*').
C25_ItalicLine ==
    Formatted =>
        \A i \in 1..Len(Lines) :
            LET line == Lines[i]
            IN  (/\ startsWith(line, << "*" >>) /\ endsWith(line, << "*" >>)
                 /\ ~startsWith(line, Stars)
                 /\ ~isDivider(line) /\ ~isRow(line) /\ ~isBold(line)) =>
                    /\ blocks[i].kind = "italic"
                    /\ blocks[i].cells = << >> /\ blocks[i].runs = << >>
                    /\ IF Len(line) >= 2
                       THEN line = << "*" >> \o blocks[i].text \o << "*" >>
                       ELSE blocks[i].text = << >>

\* the line '*note*'
C25_Witness ==
    /\ Formatted
    /\ Lines[1] = << "*", "n", "o", "t", "e", "*" >>
    /\ blocks[1] = Italic(<< "n", "o", "t", "e" >>)

\* a URL of a text: from a scheme to the next whitespace; it is an image URL
\* when it ends in one of the extensions, and bare when it does not stand
\* right behind '![]('
UrlStarts(s) == { i \in 1..Len(s) : schemeAt(s, i) > 0 }
UrlEnd(s, i) ==
    LET spaces == { k \in i..Len(s) : s[k] \in Whitespace }
    IN  IF spaces = { } THEN Len(s) ELSE SetMin(spaces) - 1
UrlAt(s, i) == SubSeq(s, i, UrlEnd(s, i))
IsImageUrl(u) ==
    \E ext \in ImageExtensions :
        endsWith(lower(u), ext) /\ Len(u) > schemeAt(u, 1) + Len(ext)
IsBare(s, i) == ~(i > Len(IMAGE_OPEN) /\ SubSeq(s, i - Len(IMAGE_OPEN), i - 1) = IMAGE_OPEN)
WrapsUrlAt(s, i, out) ==
    out = SubSeq(s, 1, i - 1) \o IMAGE_OPEN \o UrlAt(s, i) \o IMAGE_CLOSE
             \o SubSeq(s, UrlEnd(s, i) + 1, Len(s))

\* C26: the pre-pass puts a bare http or https URL that ends in .png, .jpg,
\* .jpeg or .gif, in any letter case, inside ![]( ), the URL as it was, and
\* a text without such a URL (its URLs end otherwise, or stand inside image
\* markup already, or it has none) comes out unchanged.
C26_ImagePrepass ==
    formattedText.done =>
        /\ \A i \in UrlStarts(rawText) :
              (UrlStarts(rawText) = { i } /\ IsBare(rawText, i) /\ IsImageUrl(UrlAt(rawText, i))) =>
                  WrapsUrlAt(rawText, i, formattedText.text)
        /\ (\A i \in UrlStarts(rawText) : ~(IsBare(rawText, i) /\ IsImageUrl(UrlAt(rawText, i)))) =>
              formattedText.text = rawText

\* C27: whenever a mounted controller is not busy, every user message of
\* its history has a bot message somewhere behind it, and there are as many
\* replies as user messages (the welcome message is not a reply).
C27_EveryUserMessageAnswered ==
    (mounted /\ ~isLoading) =>
        /\ \A i \in UserIndexes(messages) :
              \E j \in BotIndexes(messages) : j > i
        /\ Cardinality(UserIndexes(messages))
              = Cardinality(BotIndexes(messages) \ Welcomes(messages))

\* C28: the controller never leaves an empty history in the store: a
\* stored history always has a message; the mount itself leaves a stored
\* history as it is, and so does every step after which the history of the
\* component is still empty, such as the steps between the mount and the
\* render that applies the hydration.
C28_NoEmptyHistoryWritten ==
    /\ [](store.history.state = "json" => Len(store.history.value) > 0)
    /\ [][ /\ (HydrateStep /\ store.history.state = "json") => store'.history = store.history
           /\ (SameInstanceStep /\ messages' = << >>) => store'.history = store.history ]_vars

C28_Witness ==
    /\ variant = "ChatApp" /\ mounted /\ instance = 2
    /\ messages = << >> /\ queue # << >> /\ ignoredCall
    /\ Len(StoredHistory) >= 2
    /\ History = reviveMessages(StoredHistory)

\* C29: a line with '|', without '---', and with fewer than two pieces
\* between the pipes that are not blank is left alone by the table rule: it
\* still comes out as exactly one block, made by the first of the bold,
\* italic, blank and default rules whose condition it meets, its pipes
\* shown as they are.
C29_TableFallThrough ==
    Formatted =>
        /\ Len(blocks) = Len(Lines)
        /\ \A i \in 1..Len(Lines) :
              LET line == Lines[i]
                  kept == SelectSeq(split(line, "|"), notBlank)
              IN  (includes(line, << "|" >>) /\ ~includes(line, Dashes) /\ Len(kept) < 2) =>
                      /\ blocks[i].kind \notin { "divider", "row" }
                      /\ blocks[i].kind =
                            (IF includes(line, Stars) THEN "bold"
                             ELSE IF isItalic(line) THEN "italic"
                             ELSE IF trim(line) = << >> THEN "blank"
                             ELSE "text")
                      /\ blocks[i].kind = "text" => blocks[i].text = line
                      /\ blocks[i].kind = "bold" => includes(concatRuns(blocks[i].runs), << "|" >>)

\* the lines '**|' and '|'
C29_Witness ==
    /\ Formatted
    /\ rawText = << "*", "*", "|", "\n", "|" >>
    /\ blocks[1].kind = "bold"
    /\ blocks[2] = Plain(<< "|" >>)

\* C30: in the widget every reply, whatever its text, stands right behind
\* the user message of its submit and carries that message's requestId,
\* the outstanding request carries the requestId of the last user message,
\* and no two user messages of a history carry the same requestId.
C30_RequestIdPerSubmit ==
    variant = "Widget" =>
        /\ \A j \in BotIndexes(History) \ Welcomes(History) :
              /\ j > 1
              /\ History[j - 1].sender = "user"
              /\ History[j - 1].requestId = History[j].requestId
              /\ History[j].requestId # NoRequestId
        /\ \A r \in LiveRequests :
              /\ History[Len(History)].sender = "user"
              /\ History[Len(History)].requestId = r.requestId
        /\ \A i, j \in UserIndexes(History) :
              i # j => History[i].requestId # History[j].requestId

====
